---- MODULE Spec2Model ----
\* Field-tree document model of the JSON generator: the tree of JSONField
\* records held in the component state `fields`, the operations that change it
\* (addField, removeField, updateField, toggleCollapse, moveField and the drop
\* gesture that issues moveField), and the synthesis generateJSON that the
\* auto-save effect runs after every change of `fields`.
EXTENDS Integers, Sequences, FiniteSets, TLC

\* ---------------------------------------------------------------- bounds
\* Largest number of fields alive in the tree (addField is disabled beyond it).
MaxFields == 3
\* Largest id jsonUtils.generateId hands out; ids are 1..MaxId in creation order.
MaxId == 3

\* ---------------------------------------------------------------- data
\* `parentId?: string` absent (undefined); every generated id is positive.
NoId == 0

\* A JavaScript string is a sequence of one-character strings.
Str(s) == [t |-> "str", s |-> s]
Num(n) == [t |-> "num", n |-> n]
Bool(b) == [t |-> "bool", b |-> b]
NaN == [t |-> "nan"]
Null == [t |-> "null"]
EmptyStr == Str(<<>>)

Types == {"string", "number", "boolean", "null", "object", "array"}

\* The blank field literal of useState / addField / removeField / clearAll.
NewField(id, parentId) ==
  [id |-> id, key |-> <<>>, value |-> EmptyStr, type |-> "string", depth |-> 0,
   children |-> <<>>, isCollapsed |-> FALSE, parentId |-> parentId]

\* index.toString(): the decimal digits of a natural number.
Digit(d) == CASE d = 0 -> "0" [] d = 1 -> "1" [] d = 2 -> "2" [] d = 3 -> "3"
              [] d = 4 -> "4" [] d = 5 -> "5" [] d = 6 -> "6" [] d = 7 -> "7"
              [] d = 8 -> "8" [] OTHER -> "9"

RECURSIVE IndexToString(_)
IndexToString(n) ==
  IF n < 10 THEN <<Digit(n)>> ELSE IndexToString(n \div 10) \o <<Digit(n % 10)>>

\* Array.prototype.splice(index, 0, x) on a copy of s, index >= 0.
Splice(s, index, x) ==
  LET i == IF index > Len(s) THEN Len(s) ELSE index
  IN SubSeq(s, 1, i) \o <<x>> \o SubSeq(s, i + 1, Len(s))

\* Array.prototype.findIndex(f => f.id === id): zero-based, -1 when absent.
RECURSIVE FindIndexFrom(_, _, _)
FindIndexFrom(s, id, i) ==
  IF i > Len(s) THEN -1
  ELSE IF s[i].id = id THEN i - 1 ELSE FindIndexFrom(s, id, i + 1)

FindIndex(s, id) == FindIndexFrom(s, id, 1)

\* ---------------------------------------------------------------- tree views
\* Every id of the tree, with repetitions, in pre-order.
RECURSIVE IdList(_)
IdList(fs) ==
  IF fs = <<>> THEN <<>>
  ELSE <<Head(fs).id>> \o IdList(Head(fs).children) \o IdList(Tail(fs))

Ids(fs) == {IdList(fs)[i] : i \in 1..Len(IdList(fs))}
CountFields(fs) == Len(IdList(fs))

\* Every field record of the tree, in pre-order.
RECURSIVE AllFields(_)
AllFields(fs) ==
  IF fs = <<>> THEN <<>>
  ELSE <<Head(fs)>> \o AllFields(Head(fs).children) \o AllFields(Tail(fs))

FieldSet(fs) == {AllFields(fs)[i] : i \in 1..Len(AllFields(fs))}

\* ---------------------------------------------------------------- dragDrop.ts
RECURSIVE findField(_, _)
findField(fs, id) ==
  IF fs = <<>> THEN <<>>
  ELSE IF Head(fs).id = id THEN <<Head(fs)>>
  ELSE LET found == findField(Head(fs).children, id)
       IN IF found # <<>> THEN found ELSE findField(Tail(fs), id)

RECURSIVE findFieldWithPath(_, _, _)
findFieldWithPath(fs, id, path) ==
  IF fs = <<>> THEN [field |-> <<>>, parentPath |-> <<>>]
  ELSE IF Head(fs).id = id THEN [field |-> <<Head(fs)>>, parentPath |-> path]
  ELSE LET result == findFieldWithPath(Head(fs).children, id, Append(path, Head(fs).id))
       IN IF result.field # <<>> THEN result ELSE findFieldWithPath(Tail(fs), id, path)

\* A detach that filters the given list only and leaves nested lists alone.
removeField_Shallow(fs, id) == SelectSeq(fs, LAMBDA f : f.id # id)

RECURSIVE removeField(_, _)
removeField(fs, id) ==
  LET kept == SelectSeq(fs, LAMBDA f : f.id # id)
  IN [i \in 1..Len(kept) |->
        [kept[i] EXCEPT !.children = removeField(kept[i].children, id)]]

findInsertIndex(fs, referenceId, parentId) ==
  IF parentId # NoId
  THEN LET parent == findField(fs, parentId)
       IN IF parent # <<>>
          THEN LET refIndex == FindIndex(parent[1].children, referenceId)
               IN IF refIndex >= 0 THEN refIndex ELSE Len(parent[1].children)
          ELSE 0
  ELSE LET refIndex == FindIndex(fs, referenceId)
       IN IF refIndex >= 0 THEN refIndex ELSE Len(fs)

RECURSIVE insertField(_, _, _, _)
insertField(fs, fieldToInsert, index, parentId) ==
  IF parentId # NoId
  THEN [i \in 1..Len(fs) |->
          IF fs[i].id = parentId
          THEN [fs[i] EXCEPT !.children = Splice(fs[i].children, index, fieldToInsert)]
          ELSE [fs[i] EXCEPT !.children =
                  insertField(fs[i].children, fieldToInsert, index, parentId)]]
  ELSE Splice(fs, index, fieldToInsert)

RECURSIVE isDescendant(_, _)
isDescendant(parentField, childId) ==
  \E i \in 1..Len(parentField.children) :
     \/ parentField.children[i].id = childId
     \/ isDescendant(parentField.children[i], childId)

\* A move that reinserts the dragged field without detaching it first.
moveField_NoDetach(fs, dragId, hoverId, hoverParentId) ==
  LET dragField == findFieldWithPath(fs, dragId, <<>>).field
      hoverField == findFieldWithPath(fs, hoverId, <<>>).field
      insertIndex == findInsertIndex(fs, hoverId, hoverParentId)
  IN IF dragField = <<>> \/ hoverField = <<>> THEN fs
     ELSE insertField(fs, dragField[1], insertIndex, hoverParentId)

moveField(fs, dragId, hoverId, hoverParentId) ==
  LET dragField == findFieldWithPath(fs, dragId, <<>>).field
      hoverField == findFieldWithPath(fs, hoverId, <<>>).field
      fieldsWithoutDrag == removeField(fs, dragId)
      insertIndex == findInsertIndex(fieldsWithoutDrag, hoverId, hoverParentId)
  IN IF dragField = <<>> \/ hoverField = <<>> THEN fs
     ELSE insertField(fieldsWithoutDrag, dragField[1], insertIndex, hoverParentId)

canDrop(dragId, hoverId, fs) ==
  IF dragId = hoverId THEN FALSE
  ELSE LET dragField == findField(fs, dragId)
       IN IF dragField # <<>> /\ isDescendant(dragField[1], hoverId) THEN FALSE
          ELSE TRUE

\* ---------------------------------------------------------------- JSONGenerator.tsx
\* getFieldById: first field with the id, depth first.
RECURSIVE getFieldById(_, _)
getFieldById(fs, id) ==
  IF fs = <<>> THEN <<>>
  ELSE IF Head(fs).id = id THEN <<Head(fs)>>
  ELSE LET found == IF Len(Head(fs).children) > 0
                    THEN getFieldById(Head(fs).children, id) ELSE <<>>
       IN IF found # <<>> THEN found ELSE getFieldById(Tail(fs), id)

\* findParentField: the first field one of whose children has the id.
RECURSIVE findParentField(_, _)
findParentField(childId, fs) ==
  IF fs = <<>> THEN <<>>
  ELSE IF \E i \in 1..Len(Head(fs).children) : Head(fs).children[i].id = childId
       THEN <<Head(fs)>>
  ELSE LET found == findParentField(childId, Head(fs).children)
       IN IF found # <<>> THEN found ELSE findParentField(childId, Tail(fs))

\* An updateChildren that pushes the new field whatever the index.
RECURSIVE updateChildren_Push(_, _, _, _)
updateChildren_Push(fs, parentId, index, newField) ==
  [i \in 1..Len(fs) |->
     IF fs[i].id = parentId
     THEN [fs[i] EXCEPT !.children = Append(fs[i].children, newField)]
     ELSE [fs[i] EXCEPT !.children =
             updateChildren_Push(fs[i].children, parentId, index, newField)]]

\* addField's updateChildren; index is <<>> (undefined) or <<i>>.
RECURSIVE updateChildren(_, _, _, _)
updateChildren(fs, parentId, index, newField) ==
  [i \in 1..Len(fs) |->
     IF fs[i].id = parentId
     THEN [fs[i] EXCEPT !.children =
             IF index # <<>> THEN Splice(fs[i].children, index[1], newField)
             ELSE Append(fs[i].children, newField)]
     ELSE [fs[i] EXCEPT !.children =
             updateChildren(fs[i].children, parentId, index, newField)]]

\* The tree addField's state updater returns.
addField(fs, newId, parentId, index) ==
  LET newField == NewField(newId, parentId)
  IN IF parentId # NoId THEN updateChildren(fs, parentId, index, newField)
     ELSE IF index # <<>> THEN Splice(fs, index[1], newField)
     ELSE Append(fs, newField)

\* A re-indexing that counts positions from one.
ReIndex_OneBased(children) ==
  [i \in 1..Len(children) |-> [children[i] EXCEPT !.key = IndexToString(i)]]

\* removeField's re-indexing of the children of an array field.
ReIndex(children) ==
  [i \in 1..Len(children) |-> [children[i] EXCEPT !.key = IndexToString(i - 1)]]

\* A removal that filters the given list only and leaves nested lists alone.
removeFromFields_RootOnly(fs, id) == SelectSeq(fs, LAMBDA f : f.id # id)

RECURSIVE removeFromFields(_, _)
removeFromFields(fs, id) ==
  LET kept == SelectSeq(fs, LAMBDA f : f.id # id)
  IN [i \in 1..Len(kept) |->
        LET children == removeFromFields(kept[i].children, id)
        IN [kept[i] EXCEPT !.children =
              IF kept[i].type = "array" THEN ReIndex(children) ELSE children]]

\* The tree removeField passes to setFields; newId is the id of the reinstated
\* blank field.
removeFieldOp(fs, id, newId) ==
  LET newFields == removeFromFields(fs, id)
  IN IF Len(newFields) = 0 THEN <<NewField(newId, NoId)>> ELSE newFields

\* { ...field, ...updates }
Merge(field, updates) ==
  LET pick(k) == IF k \in DOMAIN updates THEN updates[k] ELSE field[k]
  IN [id |-> pick("id"), key |-> pick("key"), value |-> pick("value"),
      type |-> pick("type"), depth |-> pick("depth"), children |-> pick("children"),
      isCollapsed |-> pick("isCollapsed"), parentId |-> pick("parentId")]

RECURSIVE updateInFields(_, _, _)
updateInFields(fs, id, updates) ==
  [i \in 1..Len(fs) |->
     IF fs[i].id = id THEN Merge(fs[i], updates)
     ELSE [fs[i] EXCEPT !.children = updateInFields(fs[i].children, id, updates)]]

\* FieldInput's handleTypeChange: the updates it hands to onUpdate.
handleTypeChange(newType) ==
  [type |-> newType,
   value |-> CASE newType = "boolean" -> Str(<<"f", "a", "l", "s", "e">>)
               [] newType = "number" -> Str(<<"0">>)
               [] newType = "null" -> EmptyStr
               [] newType = "object" -> Str(<<"{", "}">>)
               [] newType = "array" -> Str(<<"[", "]">>)
               [] OTHER -> EmptyStr]

toggleCollapse(fs, id) ==
  LET field == getFieldById(fs, id)
  IN updateInFields(fs, id,
       [isCollapsed |-> IF field = <<>> THEN TRUE ELSE ~field[1].isCollapsed])

\* collapseAll / expandAll: the local updateCollapse, which sets the flag of
\* object and array fields only.
RECURSIVE updateCollapse(_, _)
updateCollapse(fieldList, collapsed) ==
  [i \in 1..Len(fieldList) |->
     [fieldList[i] EXCEPT
        !.isCollapsed = IF fieldList[i].type \in {"object", "array"} THEN collapsed ELSE @,
        !.children = updateCollapse(@, collapsed)]]

collapseAll(prevFields) == updateCollapse(prevFields, TRUE)
expandAll(prevFields) == updateCollapse(prevFields, FALSE)

\* ---------------------------------------------------------------- strings
Letters ==
  {"a", "b", "c", "d", "e", "f", "g", "h", "i", "j", "k", "l", "m", "n", "o", "p",
   "q", "r", "s", "t", "u", "v", "w", "x", "y", "z", "A", "B", "C", "D", "E", "F",
   "G", "H", "I", "J", "K", "L", "M", "N", "O", "P", "Q", "R", "S", "T", "U", "V",
   "W", "X", "Y", "Z"}
Digits == {"0", "1", "2", "3", "4", "5", "6", "7", "8", "9"}
Whitespace == {" ", "\t", "\n", "\r"}

\* String.prototype.trim()
RECURSIVE TrimLeft(_)
TrimLeft(s) == IF s # <<>> /\ Head(s) \in Whitespace THEN TrimLeft(Tail(s)) ELSE s

RECURSIVE TrimRight(_)
TrimRight(s) ==
  IF s # <<>> /\ s[Len(s)] \in Whitespace THEN TrimRight(SubSeq(s, 1, Len(s) - 1)) ELSE s

Trim(s) == TrimRight(TrimLeft(s))

DigitValue(c) == CHOOSE d \in 0..9 : Digit(d) = c

RECURSIVE DecimalValue(_)
DecimalValue(s) ==
  IF s = <<>> THEN 0 ELSE 10 * DecimalValue(SubSeq(s, 1, Len(s) - 1)) + DigitValue(s[Len(s)])

AllDigits(s) == s # <<>> /\ \A i \in 1..Len(s) : s[i] \in Digits

\* ---------------------------------------------------------------- validation.ts
\* /^[a-zA-Z_$][a-zA-Z0-9_$]*$/.test(key)
IsIdentifier(key) ==
  /\ key # <<>>
  /\ key[1] \in Letters \cup {"_", "$"}
  /\ \A i \in 2..Len(key) : key[i] \in Letters \cup Digits \cup {"_", "$"}

\* A validation that tests the identifier grammar before the space character.
validateKeyValue_GrammarFirst(key) ==
  IF Trim(key) = <<>> THEN [isValid |-> FALSE, error |-> "Key cannot be empty"]
  ELSE IF ~IsIdentifier(key)
       THEN [isValid |-> FALSE, error |-> "Key must be a valid identifier"]
  ELSE [isValid |-> TRUE, error |-> ""]

validateKeyValue(key) ==
  IF Trim(key) = <<>> THEN [isValid |-> FALSE, error |-> "Key cannot be empty"]
  ELSE IF \E i \in 1..Len(key) : key[i] = " "
       THEN [isValid |-> FALSE, error |-> "Key cannot contain spaces"]
  ELSE IF ~IsIdentifier(key)
       THEN [isValid |-> FALSE, error |-> "Key must be a valid identifier"]
  ELSE [isValid |-> TRUE, error |-> ""]

\* keys.length !== new Set(keys).size
hasDuplicateKeys(fs) == Len(fs) # Cardinality({fs[i].key : i \in 1..Len(fs)})

\* key.replace(/[^a-zA-Z0-9_$]/g, '_').replace(/^[0-9]/, '_$&')
sanitizeKey(key) ==
  LET replaced == [i \in 1..Len(key) |->
                     IF key[i] \in Letters \cup Digits \cup {"_", "$"} THEN key[i] ELSE "_"]
  IN IF replaced # <<>> /\ replaced[1] \in Digits THEN <<"_">> \o replaced ELSE replaced

\* ---------------------------------------------------------------- JavaScript values
Inf == [t |-> "inf"]
JObj(o) == [t |-> "obj", o |-> o]
JList(l) == [t |-> "list", l |-> l]
\* An object with no entries.
NoEntries == [k \in {} |-> Null]

\* Number(v). A string is trimmed; the empty string is 0, a run of decimal
\* digits its value, "Infinity" the infinite number, and a string without any
\* digit is not a number. The values the model draws hold no other numeric
\* syntax (sign, fraction, exponent, radix prefix).
NumberOf(v) ==
  CASE v.t = "num" -> v
    [] v.t = "bool" -> Num(IF v.b THEN 1 ELSE 0)
    [] v.t = "null" -> Num(0)
    [] v.t = "str" ->
         LET s == Trim(v.s)
         IN IF s = <<>> THEN Num(0)
            ELSE IF AllDigits(s) THEN Num(DecimalValue(s))
            ELSE IF s = <<"I", "n", "f", "i", "n", "i", "t", "y">> THEN Inf
            ELSE NaN
    [] OTHER -> v

isNaN(v) == v.t = "nan"

\* String(v)
StringOf(v) ==
  CASE v.t = "str" -> v
    [] v.t = "num" -> Str(IndexToString(v.n))
    [] v.t = "bool" -> Str(IF v.b THEN <<"t", "r", "u", "e">> ELSE <<"f", "a", "l", "s", "e">>)
    [] v.t = "null" -> Str(<<"n", "u", "l", "l">>)
    [] OTHER -> v

\* `v && typeof v === 'string' && v.trim()`
IsNonBlankString(v) == v.t = "str" /\ Trim(v.s) # <<>>

\* jsonUtils.parseJSON over the literals the model draws: JSON.parse accepts the
\* empty object and array, a one-number array, a decimal number without a
\* leading zero, true, false and null, each with optional surrounding
\* whitespace, and rejects every other string of the model.
parseJSON(str) ==
  LET s == Trim(str)
      ok(d) == [data |-> d, error |-> FALSE]
  IN CASE s = <<"{", "}">> -> ok(JObj(NoEntries))
       [] s = <<"[", "]">> -> ok(JList(<<>>))
       [] s = <<"[", "1", "]">> -> ok(JList(<<Num(1)>>))
       [] AllDigits(s) /\ (Len(s) = 1 \/ s[1] # "0") -> ok(Num(DecimalValue(s)))
       [] s = <<"t", "r", "u", "e">> -> ok(Bool(TRUE))
       [] s = <<"f", "a", "l", "s", "e">> -> ok(Bool(FALSE))
       [] s = <<"n", "u", "l", "l">> -> ok(Null)
       [] OTHER -> [data |-> Null, error |-> TRUE]

\* ---------------------------------------------------------------- generateJSON
IsStr(v, s) == v.t = "str" /\ v.s = s
IsTrue(v) == v.t = "bool" /\ v.b
\* `newErrors` with nothing recorded.
NoErrors == [k \in {} |-> ""]

\* A boolean case by truthiness: every non-empty string counts as true.
BooleanOf_Truthy(v) == Bool((v.t = "str" /\ v.s # <<>>) \/ IsTrue(v))

\* `value === 'true' || value === true`
BooleanOf(v) == Bool(IsStr(v, <<"t", "r", "u", "e">>) \/ IsTrue(v))

RECURSIVE buildObject(_)

\* A value with the errors recorded while it was computed.
Value(v, errs) == [value |-> v, errs |-> errs]
NestedObject(built) == Value(JObj(built.json), built.errs)
ParsedOr(parseResult, default) ==
  Value(IF parseResult.error THEN default ELSE parseResult.data, NoErrors)

\* The value the array case computes for one child, and the errors the nested
\* buildObject call records on the way.
arrayChildValue(child) ==
  CASE child.type = "number" ->
         Value(IF IsStr(child.value, <<>>) THEN Num(0) ELSE NumberOf(child.value), NoErrors)
    [] child.type = "boolean" -> Value(BooleanOf(child.value), NoErrors)
    [] child.type = "null" -> Value(Null, NoErrors)
    [] child.type = "object" ->
         IF Len(child.children) > 0 THEN NestedObject(buildObject(child.children))
         ELSE IF IsNonBlankString(child.value) /\ ~IsStr(child.value, <<"{", "}">>)
         THEN ParsedOr(parseJSON(child.value.s), JObj(NoEntries))
         ELSE Value(JObj(NoEntries), NoErrors)
    [] child.type = "array" ->
         IF Len(child.children) > 0
         THEN Value(JList([i \in 1..Len(child.children) |-> child.children[i].value]),
                    NoErrors)
         ELSE IF IsNonBlankString(child.value) /\ ~IsStr(child.value, <<"[", "]">>)
         THEN ParsedOr(parseJSON(child.value.s), JList(<<>>))
         ELSE Value(JList(<<>>), NoErrors)
    [] OTHER -> Value(StringOf(child.value), NoErrors)

\* The list the array case builds from the children of an array field.
Pushed(prev, each) == Value(JList(Append(prev.value.l, each.value)), each.errs @@ prev.errs)

RECURSIVE arrayValueUpTo(_, _)
arrayValueUpTo(children, n) ==
  IF n = 0 THEN Value(JList(<<>>), NoErrors)
  ELSE Pushed(arrayValueUpTo(children, n - 1), arrayChildValue(children[n]))

arrayValue(children) == arrayValueUpTo(children, Len(children))

\* The outcomes of one pass of buildObject's forEach body: whether the field is
\* written to jsonObject, the value written, and the errors recorded.
Skip(errs) == [emit |-> FALSE, value |-> Null, errs |-> errs]
Put(v, errs) == [emit |-> TRUE, value |-> v, errs |-> errs]
Error(id, msg) == Skip(id :> msg)

\* A number case that writes 0 where the value is not a number.
NumberCase_Lenient(field, processedValue) ==
  Put(IF isNaN(processedValue) THEN Num(0) ELSE processedValue, NoErrors)

NumberCase(field, processedValue) ==
  IF isNaN(processedValue) THEN Error(field.id, "Invalid number")
  ELSE Put(processedValue, NoErrors)
NestedCase(built) == Put(built.value, built.errs)
ObjectLiteralCase(field, parseResult) ==
  IF parseResult.error THEN Error(field.id, "Invalid JSON object")
  ELSE Put(parseResult.data, NoErrors)
ArrayLiteralCase(field, parseResult) ==
  IF parseResult.error \/ parseResult.data.t # "list"
  THEN Error(field.id, "Invalid JSON array")
  ELSE Put(parseResult.data, NoErrors)

\* The switch on field.type.
convertValue(field) ==
  CASE field.type = "number" ->
         NumberCase(field, IF IsStr(field.value, <<>>) THEN Num(0)
                           ELSE NumberOf(field.value))
    [] field.type = "boolean" -> Put(BooleanOf(field.value), NoErrors)
    [] field.type = "null" -> Put(Null, NoErrors)
    [] field.type = "object" ->
         IF Len(field.children) > 0
         THEN NestedCase(NestedObject(buildObject(field.children)))
         ELSE IF IsNonBlankString(field.value) /\ ~IsStr(field.value, <<"{", "}">>)
         THEN ObjectLiteralCase(field, parseJSON(field.value.s))
         ELSE Put(JObj(NoEntries), NoErrors)
    [] field.type = "array" ->
         IF Len(field.children) > 0 THEN NestedCase(arrayValue(field.children))
         ELSE IF IsNonBlankString(field.value) /\ ~IsStr(field.value, <<"[", "]">>)
         THEN ArrayLiteralCase(field, parseJSON(field.value.s))
         ELSE Put(JList(<<>>), NoErrors)
    [] OTHER -> Put(StringOf(field.value), NoErrors)

Validated(field, validation) ==
  IF Trim(field.key) = <<>> THEN Skip(NoErrors)
  ELSE IF ~validation.isValid THEN Error(field.id, validation.error)
  ELSE convertValue(field)

\* A forEach body that leaves collapsed fields out of the output.
processField_SkipsCollapsed(field) ==
  IF field.isCollapsed THEN Skip(NoErrors)
  ELSE Validated(field, validateKeyValue(field.key))

processField(field) == Validated(field, validateKeyValue(field.key))

\* buildObject: the forEach over fieldList, in order; a later write to the same
\* key of jsonObject, or the same id of newErrors, replaces the earlier one.
Written(prev, key, r) ==
  [json |-> IF r.emit THEN (key :> r.value) @@ prev.json ELSE prev.json,
   errs |-> r.errs @@ prev.errs]

RECURSIVE buildObjectUpTo(_, _)
buildObjectUpTo(fieldList, n) ==
  IF n = 0 THEN [json |-> NoEntries, errs |-> NoErrors]
  ELSE Written(buildObjectUpTo(fieldList, n - 1), fieldList[n].key,
               processField(fieldList[n]))

buildObject(fieldList) == buildObjectUpTo(fieldList, Len(fieldList))

\* checkDuplicates: the 'Duplicate key' entries it writes to newErrors.
RECURSIVE checkDuplicates(_)

\* A duplicate check that looks at the given list only, not at nested lists.
checkDuplicates_RootOnly(fieldList) ==
  LET fieldsWithKeys == SelectSeq(fieldList, LAMBDA f : Trim(f.key) # <<>>)
      flagged ==
        {fieldsWithKeys[i].id : i \in
           {i \in 1..Len(fieldsWithKeys) :
              \E j \in 1..Len(fieldsWithKeys) :
                 j # i /\ fieldsWithKeys[j].key = fieldsWithKeys[i].key}}
  IN [id \in flagged |-> "Duplicate key"]

\* checkDuplicates' recursion into the children of the first n fields.
RECURSIVE checkChildren(_, _)
checkChildren(fieldList, n) ==
  IF n = 0 THEN NoErrors
  ELSE IF Len(fieldList[n].children) > 0
       THEN checkDuplicates(fieldList[n].children) @@ checkChildren(fieldList, n - 1)
       ELSE checkChildren(fieldList, n - 1)

checkDuplicates(fieldList) ==
  LET fieldsWithKeys == SelectSeq(fieldList, LAMBDA f : Trim(f.key) # <<>>)
      duplicateKeys ==
        {fieldsWithKeys[j].key : j \in
           {j \in 1..Len(fieldsWithKeys) :
              \E i \in 1..(j - 1) : fieldsWithKeys[i].key = fieldsWithKeys[j].key}}
      flagged ==
        IF hasDuplicateKeys(fieldsWithKeys)
        THEN {fieldsWithKeys[i].id : i \in
                {i \in 1..Len(fieldsWithKeys) : fieldsWithKeys[i].key \in duplicateKeys}}
        ELSE {}
      own == [id \in flagged |-> "Duplicate key"]
  IN checkChildren(fieldList, Len(fieldList)) @@ own

Checked(built, duplicates) == [errors |-> duplicates @@ built.errs, json |-> built.json]

generateJSON(fs) == Checked(buildObject(fs), checkDuplicates(fs))

\* ---------------------------------------------------------------- flattenedFields
\* A flattening that lists the children of collapsed fields too.
RECURSIVE flatten_IgnoresCollapse(_, _)
flatten_IgnoresCollapse(fieldList, depth) ==
  IF fieldList = <<>> THEN <<>>
  ELSE <<[Head(fieldList) EXCEPT !.depth = depth]>>
       \o flatten_IgnoresCollapse(Head(fieldList).children, depth + 1)
       \o flatten_IgnoresCollapse(Tail(fieldList), depth)

RECURSIVE flatten(_, _)
flatten(fieldList, depth) ==
  IF fieldList = <<>> THEN <<>>
  ELSE LET field == Head(fieldList)
       IN <<[field EXCEPT !.depth = depth]>>
          \o (IF Len(field.children) > 0 /\ ~field.isCollapsed
              THEN flatten(field.children, depth + 1) ELSE <<>>)
          \o flatten(Tail(fieldList), depth)

flattenedFields(fs) == flatten(fs, 0)

\* ---------------------------------------------------------------- storage
\* JSON.stringify of the tree: a property that is undefined is left out, a
\* number that is NaN or infinite is written as null.
RECURSIVE stringifyFields(_)
stringifyFields(fs) ==
  [i \in 1..Len(fs) |->
     [id |-> fs[i].id, key |-> fs[i].key, type |-> fs[i].type, depth |-> fs[i].depth,
      value |-> IF fs[i].value.t \in {"nan", "inf"} THEN Null ELSE fs[i].value,
      children |-> stringifyFields(fs[i].children),
      isCollapsed |-> fs[i].isCollapsed,
      parentId |-> IF fs[i].parentId = NoId THEN <<>> ELSE <<fs[i].parentId>>]]

\* JSON.parse of a stored document.
RECURSIVE parseFields(_)
parseFields(document) ==
  [i \in 1..Len(document) |->
     [document[i] EXCEPT !.children = parseFields(@),
                         !.parentId = IF @ = <<>> THEN NoId ELSE @[1]]]

\* storage.get / storage.set on the item 'json-generator-fields'.
NoItem == <<>>
storageGet(item, defaultValue) == IF item # NoItem THEN parseFields(item[1]) ELSE defaultValue
storageSet(value) == <<stringifyFields(value)>>

\* ---------------------------------------------------------------- state
VARIABLES
  fields,         \* useState<JSONField[]>: the tree
  nextId,         \* the next id jsonUtils.generateId returns
  generatedJSON,  \* useState<object>: the last synthesized object
  errors,         \* useState: the last error map
  lastOp,         \* the name of the operation issued last
  returned,       \* the value the last validationUtils call returned
  localStorage,   \* the item 'json-generator-fields': none, or one document
  queue,          \* the setFields calls React has not yet rendered
  effects,        \* the effects that are still to run after the last render
  savedAtMount    \* the item the component found in storage when it mounted

vars == <<fields, nextId, generatedJSON, errors, lastOp, returned,
          localStorage, queue, effects, savedAtMount>>

\* No validationUtils call has returned yet.
NotReturned == <<>>

\* ---------------------------------------------------------------- inputs
IdDraws == 1..MaxId
ParentDraws == 0..MaxId
IndexDraws == {<<>>, <<0>>, <<1>>}
TypeDraws == {"string", "object", "array"}
UpdateDraws == {handleTypeChange(t) : t \in TypeDraws}
DropZones == {"before", "after", "inside"}

\* The auto-save effect: generateJSON runs on the new tree after every change.
AutoSave(newFields, generated, op) ==
  /\ fields' = newFields
  /\ localStorage' = storageSet(newFields)
  /\ generatedJSON' = generated.json
  /\ errors' = generated.errors
  /\ lastOp' = op
  /\ UNCHANGED <<returned, savedAtMount>>

\* A change that is rendered at once, with nothing left pending.
Saved(newFields, generated, op) ==
  /\ AutoSave(newFields, generated, op)
  /\ UNCHANGED <<queue, effects>>

\* The component at rest: its tree is stored, nothing is queued or scheduled.
AtRest ==
  /\ localStorage = storageSet(fields)
  /\ queue = <<>>
  /\ effects = <<>>
  /\ savedAtMount = NoItem

Commit(newFields, op) == Saved(newFields, generateJSON(newFields), op)

Init ==
  /\ fields = <<NewField(1, NoId)>>
  /\ nextId = 2
  /\ generatedJSON = generateJSON(fields).json
  /\ errors = generateJSON(fields).errors
  /\ lastOp = "init"
  /\ returned = NotReturned
  /\ AtRest

AddField(parentId, index) ==
  /\ CountFields(fields) < MaxFields
  /\ nextId <= MaxId
  /\ Commit(addField(fields, nextId, parentId, index), "add")
  /\ nextId' = nextId + 1

RemoveField(id) ==
  /\ Len(removeFromFields(fields, id)) = 0 => nextId <= MaxId
  /\ Commit(removeFieldOp(fields, id, nextId), "remove")
  /\ nextId' = IF Len(removeFromFields(fields, id)) = 0 THEN nextId + 1 ELSE nextId

UpdateField(id, updates) ==
  /\ Commit(updateInFields(fields, id, updates), "update")
  /\ UNCHANGED nextId

ToggleCollapse(id) ==
  /\ Commit(toggleCollapse(fields, id), "toggle")
  /\ UNCHANGED nextId

MoveField(dragId, hoverId, hoverParentId) ==
  /\ Commit(moveField(fields, dragId, hoverId, hoverParentId), "move")
  /\ UNCHANGED nextId

\* FieldInput's handleDrop on the rendered row `field`, with the id carried by
\* the drag data and the drop zone last set by handleDragOver.
HandleDrop(field, dragId, dragOver) ==
  LET isNestableType == field.type \in {"object", "array"}
      targetParentId == IF dragOver = "inside" /\ isNestableType THEN field.id
                        ELSE field.parentId
  IN /\ dragId # field.id
     /\ canDrop(dragId, field.id, fields)
     /\ MoveField(dragId, field.id, targetParentId)

Rendered == {flattenedFields(fields)[i] : i \in 1..Len(flattenedFields(fields))}

Next ==
  \/ \E parentId \in ParentDraws, index \in IndexDraws : AddField(parentId, index)
  \/ \E id \in IdDraws : RemoveField(id)
  \/ \E id \in IdDraws, updates \in UpdateDraws : UpdateField(id, updates)
  \/ \E dragId \in IdDraws, hoverId \in IdDraws, hoverParentId \in ParentDraws :
       MoveField(dragId, hoverId, hoverParentId)
  \/ \E field \in Rendered, dragId \in {f.id : f \in Rendered}, dragOver \in DropZones :
       HandleDrop(field, dragId, dragOver)

Spec == Init /\ [][Next]_vars

\* ---------------------------------------------------------------- array removal
\* Trees with one array field at the root and up to MaxArrayChildren children
\* of mixed types, as addField and updateField build them; removeField acts.
MaxArrayChildren == 2

ArrayLiteralDraws == {Str(<<"[", "]">>), Str(<<"[", "1", "]">>), Str(<<"a", "b", "c">>)}
ArrayChildKeyDraws == {<<>>, <<"a">>}
ArrayChildDraws ==
  {[type |-> "string", value |-> Str(<<"x">>)],
   [type |-> "string", value |-> Str(<<"y">>)],
   [type |-> "number", value |-> Str(<<"3", "6">>)],
   [type |-> "number", value |-> Str(<<"a", "b", "c">>)],
   [type |-> "boolean", value |-> Str(<<"t", "r", "u", "e">>)],
   [type |-> "null", value |-> EmptyStr],
   [type |-> "object", value |-> Str(<<"{", "}">>)],
   [type |-> "array", value |-> Str(<<"[", "1", "]">>)]}

ArrayChild(id, draw, key) ==
  [NewField(id, 1) EXCEPT !.type = draw.type, !.value = draw.value, !.key = key]

ArrayTree(literal, draws, keys) ==
  <<[NewField(1, NoId) EXCEPT
       !.key = <<"t">>, !.type = "array", !.value = literal,
       !.children = [i \in 1..Len(draws) |-> ArrayChild(i + 1, draws[i], keys[i])]]>>

InitArray ==
  /\ \E n \in 1..MaxArrayChildren, literal \in ArrayLiteralDraws :
       \E draws \in [1..n -> ArrayChildDraws], keys \in [1..n -> ArrayChildKeyDraws] :
          /\ fields = ArrayTree(literal, draws, keys)
          /\ nextId = n + 2
  /\ generatedJSON = generateJSON(fields).json
  /\ errors = generateJSON(fields).errors
  /\ lastOp = "init"
  /\ returned = NotReturned
  /\ AtRest

NextArray == \E id \in 1..(MaxArrayChildren + 1) : RemoveField(id)

SpecArray == InitArray /\ [][NextArray]_vars

\* ---------------------------------------------------------------- synthesis
\* Trees of up to MaxSiblings root fields whose first field may hold a nested
\* sibling group; the auto-save effect synthesizes them.
MaxSiblings == 3

SynthKeyDraws == {<<>>, <<" ">>, <<"a">>, <<"b">>, <<"1">>}
NestedTypeDraws == {"object", "array"}

\* A string field whose value names its id.
Leaf(id, parentId, key) ==
  [NewField(id, parentId) EXCEPT !.key = key, !.value = Str(<<"v", Digit(id)>>)]

SynthTree(keys, nestedType, nestedKeys) ==
  LET root == [i \in 1..Len(keys) |-> Leaf(i, NoId, keys[i])]
      nested == [i \in 1..Len(nestedKeys) |-> Leaf(Len(keys) + i, 1, nestedKeys[i])]
  IN IF nestedKeys = <<>> THEN root
     ELSE [root EXCEPT ![1] =
             [@ EXCEPT !.type = nestedType, !.children = nested,
                       !.value = (handleTypeChange(nestedType)).value]]

InitSynth ==
  /\ \E n \in 1..MaxSiblings, m \in 0..2, nestedType \in NestedTypeDraws :
       \E keys \in [1..n -> SynthKeyDraws], nestedKeys \in [1..m -> SynthKeyDraws] :
          /\ fields = SynthTree(keys, nestedType, nestedKeys)
          /\ nextId = n + m + 1
  /\ generatedJSON = NoEntries
  /\ errors = NoErrors
  /\ lastOp = "init"
  /\ returned = NotReturned
  /\ AtRest

\* The effect of lines 374-377 on the mounted tree.
GenerateJSON ==
  /\ lastOp = "init"
  /\ Commit(fields, "generate")
  /\ UNCHANGED nextId

NextSynth == GenerateJSON

SpecSynth == InitSynth /\ [][NextSynth]_vars

\* ---------------------------------------------------------------- conversion
\* Trees whose fields carry every type with values that convert, fail to
\* convert, or are manual literals: up to MaxLeaves root fields, or one root
\* container with up to MaxNested children; the auto-save effect synthesizes them.
MaxLeaves == 2
MaxNested == 2

ConvertKeyDraws == {<<>>, <<" ">>, <<"a">>, <<"b">>}
LeafDraws ==
  {[type |-> "string", value |-> Str(<<"x">>)],
   [type |-> "string", value |-> Num(7)],
   [type |-> "number", value |-> EmptyStr],
   [type |-> "number", value |-> Str(<<" ">>)],
   [type |-> "number", value |-> Str(<<"3", "6">>)],
   [type |-> "number", value |-> Str(<<"a", "b", "c">>)],
   [type |-> "number", value |-> Str(<<"I", "n", "f", "i", "n", "i", "t", "y">>)],
   [type |-> "boolean", value |-> Str(<<"t", "r", "u", "e">>)],
   [type |-> "boolean", value |-> Str(<<"f", "a", "l", "s", "e">>)],
   [type |-> "boolean", value |-> Str(<<"y", "e", "s">>)],
   [type |-> "boolean", value |-> Bool(TRUE)],
   [type |-> "null", value |-> EmptyStr],
   [type |-> "null", value |-> Str(<<"x">>)]}
LiteralDraws ==
  {[type |-> "object", value |-> EmptyStr],
   [type |-> "object", value |-> Str(<<"{", "}">>)],
   [type |-> "object", value |-> Str(<<"[", "1", "]">>)],
   [type |-> "object", value |-> Str(<<"5">>)],
   [type |-> "object", value |-> Str(<<"a", "b", "c">>)],
   [type |-> "array", value |-> Str(<<"[", "]">>)],
   [type |-> "array", value |-> Str(<<"[", "1", "]">>)],
   [type |-> "array", value |-> Str(<<"{", "}">>)],
   [type |-> "array", value |-> Str(<<"a", "b", "c">>)]}
\* The fields that follow the first root field: they repeat or avoid its key.
SiblingDraws ==
  {[type |-> "string", value |-> Str(<<"x">>)],
   [type |-> "number", value |-> Str(<<"a", "b", "c">>)]}
\* A container child's own children: none, or one number field.
GrandchildDraws == {<<>>, <<Str(<<"3", "6">>)>>, <<Str(<<"a", "b", "c">>)>>}

Typed(id, parentId, key, draw) ==
  [NewField(id, parentId) EXCEPT !.key = key, !.type = draw.type, !.value = draw.value]

FlatTree(keys, first, rest) ==
  [i \in 1..Len(keys) |->
     Typed(i, NoId, keys[i], IF i = 1 THEN first ELSE rest[i - 1])]

\* The id of the only child of the i-th child of the root container.
GrandchildId(i) == MaxNested + 1 + i

NestedChild(i, key, draw, grand) ==
  IF draw.type \in {"object", "array"} /\ grand # <<>>
  THEN [Typed(i + 1, 1, key, draw) EXCEPT
          !.children = <<Typed(GrandchildId(i), i + 1, <<"k">>,
                               [type |-> "number", value |-> grand[1]])>>]
  ELSE Typed(i + 1, 1, key, draw)

NestedTree(type, keys, draws, grands) ==
  <<[NewField(1, NoId) EXCEPT
       !.key = <<"t">>, !.type = type, !.value = (handleTypeChange(type)).value,
       !.children = [i \in 1..Len(keys) |-> NestedChild(i, keys[i], draws[i], grands[i])]]>>

InitConvert ==
  /\ \/ \E n \in 1..MaxLeaves, first \in LeafDraws \cup LiteralDraws :
          \E keys \in [1..n -> ConvertKeyDraws], rest \in [1..(n - 1) -> SiblingDraws] :
             fields = FlatTree(keys, first, rest)
     \/ \E n \in 1..MaxNested, type \in NestedTypeDraws :
          \E keys \in [1..n -> {<<>>, <<"a">>}], draws \in [1..n -> LeafDraws \cup LiteralDraws],
             grands \in [1..n -> GrandchildDraws] :
             /\ \A i \in 1..n : draws[i].type \notin {"object", "array"} => grands[i] = <<>>
             /\ fields = NestedTree(type, keys, draws, grands)
  /\ nextId = 2 * MaxNested + 2
  /\ generatedJSON = NoEntries
  /\ errors = NoErrors
  /\ lastOp = "init"
  /\ returned = NotReturned
  /\ AtRest

NextConvert == GenerateJSON

SpecConvert == InitConvert /\ [][NextConvert]_vars

\* ---------------------------------------------------------------- validationUtils
\* Sibling lists whose first field has any key of up to MaxKeyLen characters
\* and whose other fields have short keys; one validationUtils call is made.
MaxKeyLen == 3
MaxKeyFields == 3

KeyChars == {"a", "1", "_", "$", " ", "\t", "-"}
KeyDraws == UNION {[1..n -> KeyChars] : n \in 0..MaxKeyLen}
ShortKeyDraws == {<<>>, <<" ">>, <<"a">>, <<"b">>}

KeyList(first, rest) ==
  [i \in 1..(Len(rest) + 1) |-> Leaf(i, NoId, IF i = 1 THEN first ELSE rest[i - 1])]

InitKeys ==
  /\ \E first \in KeyDraws, n \in 0..(MaxKeyFields - 1) :
       \E rest \in [1..n -> ShortKeyDraws] :
          /\ fields = KeyList(first, rest)
          /\ nextId = n + 2
  /\ generatedJSON = NoEntries
  /\ errors = NoErrors
  /\ lastOp = "init"
  /\ returned = NotReturned
  /\ AtRest

Returns(op, value) ==
  /\ lastOp = "init"
  /\ lastOp' = op
  /\ returned' = value
  /\ UNCHANGED <<fields, nextId, generatedJSON, errors, localStorage, queue, effects, savedAtMount>>

ValidateKeyValue == Returns("validateKeyValue", validateKeyValue(fields[1].key))
HasDuplicateKeys == Returns("hasDuplicateKeys", hasDuplicateKeys(fields))
SanitizeKey == Returns("sanitizeKey", sanitizeKey(fields[1].key))

NextKeys == ValidateKeyValue \/ HasDuplicateKeys \/ SanitizeKey

SpecKeys == InitKeys /\ [][NextKeys]_vars

\* ---------------------------------------------------------------- editing
\* Trees of up to MaxEditFields fields of every shape, edited once through
\* updateField and collapsed and expanded at will.
MaxEditFields == 3

EditIds == 1..MaxEditFields
EditTypeDraws == {"string", "object", "array"}
\* What updateField is handed: the updates of handleTypeChange, or a type alone.
EditDraws == {handleTypeChange(t) : t \in Types} \cup {[type |-> t] : t \in Types}

\* The fields whose parent is parentId, in id order; parents[i] < i is the id
\* of the parent of field i.
RECURSIVE EditTree(_, _, _)
EditTree(parents, types, parentId) ==
  LET ids == SelectSeq([i \in 1..Len(parents) |-> i], LAMBDA i : parents[i] = parentId)
  IN [k \in 1..Len(ids) |->
        [Typed(ids[k], parentId, <<"k", Digit(ids[k])>>, handleTypeChange(types[ids[k]]))
           EXCEPT !.children = EditTree(parents, types, ids[k])]]

InitEdit ==
  /\ \E n \in EditIds :
       \E parents \in [1..n -> 0..(n - 1)], types \in [1..n -> EditTypeDraws] :
          /\ \A i \in 1..n : parents[i] < i
          /\ fields = EditTree(parents, types, NoId)
          /\ nextId = n + 1
  /\ generatedJSON = generateJSON(fields).json
  /\ errors = generateJSON(fields).errors
  /\ lastOp = "init"
  /\ returned = NotReturned
  /\ AtRest

EditField(id, updates) ==
  /\ lastOp = "init"
  /\ UpdateField(id, updates)

CollapseAll ==
  /\ Commit(collapseAll(fields), "collapseAll")
  /\ UNCHANGED nextId

ExpandAll ==
  /\ Commit(expandAll(fields), "expandAll")
  /\ UNCHANGED nextId

NextEdit ==
  \/ \E id \in EditIds, updates \in EditDraws : EditField(id, updates)
  \/ \E id \in EditIds : ToggleCollapse(id)
  \/ CollapseAll
  \/ ExpandAll

SpecEdit == InitEdit /\ [][NextEdit]_vars

\* ---------------------------------------------------------------- rendering
\* One setFields call: the operation and its arguments, the id generated for it,
\* and the tree it passes to setFields; none for a call that passes an updater,
\* which React applies to the state it has when it renders.
SetFields(op, id, hoverId, parentId, index, updates, newId, state) ==
  [op |-> op, id |-> id, hoverId |-> hoverId, parentId |-> parentId, index |-> index,
   updates |-> updates, newId |-> newId, state |-> state]

NoUpdates == [type |-> "string"]

\* The updater addField passes to setFields.
Updater(action, prevFields) ==
  addField(prevFields, action.newId, action.parentId, action.index)

\* React's processing of the queued calls, in order, on the rendered state.
RECURSIVE Reduced(_, _)
Reduced(pending, state) ==
  IF pending = <<>> THEN state
  ELSE Reduced(Tail(pending),
               IF Head(pending).state # <<>> THEN Head(pending).state[1]
               ELSE Updater(Head(pending), state))

\* The re-render that follows queued setFields calls; it schedules the
\* auto-save effect, whose dependencies have changed.
Render ==
  /\ effects = <<>>
  /\ queue # <<>>
  /\ fields' = Reduced(queue, fields)
  /\ queue' = <<>>
  /\ effects' = <<"save">>
  /\ lastOp' = "render"
  /\ UNCHANGED <<nextId, generatedJSON, errors, returned, localStorage, savedAtMount>>

\* The load effect: a non-empty stored tree is passed to setFields.
Loaded(savedFields) ==
  IF Len(savedFields) > 0
  THEN Append(queue, SetFields("load", NoId, NoId, NoId, <<>>, NoUpdates, NoId, <<savedFields>>))
  ELSE queue

LoadEffect ==
  /\ effects # <<>>
  /\ Head(effects) = "load"
  /\ queue' = Loaded(storageGet(localStorage, <<>>))
  /\ effects' = Tail(effects)
  /\ lastOp' = "load"
  /\ UNCHANGED <<fields, nextId, generatedJSON, errors, returned, localStorage, savedAtMount>>

\* The auto-save effect, on the tree of the render that scheduled it.
SaveEffect ==
  /\ effects # <<>>
  /\ Head(effects) = "save"
  /\ AutoSave(fields, generateJSON(fields), "save")
  /\ effects' = Tail(effects)
  /\ UNCHANGED <<nextId, queue>>

\* ---------------------------------------------------------------- mount
\* The component mounts on a stored document of up to MaxSavedFields fields,
\* or on empty storage; its effects run once, or twice under React.StrictMode,
\* before the state updates they queue are rendered.
MaxSavedFields == 3

MountEffects == <<"load", "save">>
EffectSchedules == {MountEffects, MountEffects \o MountEffects}

InitMount ==
  /\ \E n \in 0..MaxSavedFields :
       \E parents \in [1..n -> 0..(n - 1)], types \in [1..n -> EditTypeDraws] :
          /\ \A i \in 1..n : parents[i] < i
          /\ localStorage = IF n = 0 THEN NoItem
                            ELSE storageSet(EditTree(parents, types, NoId))
          /\ fields = <<NewField(n + 1, NoId)>>
          /\ nextId = n + 2
  /\ savedAtMount = localStorage
  /\ effects \in EffectSchedules
  /\ queue = <<>>
  /\ generatedJSON = NoEntries
  /\ errors = NoErrors
  /\ lastOp = "init"
  /\ returned = NotReturned

NextMount == LoadEffect \/ SaveEffect \/ Render

SpecMount == InitMount /\ [][NextMount]_vars

\* ---------------------------------------------------------------- batching
\* Up to MaxPending operations are issued on a tree of up to MaxBatchFields
\* fields before React renders; each handler sees the tree of the last render.
MaxPending == 2
MaxBatchFields == 2

BatchIds == 1..MaxBatchFields
BatchParents == 0..MaxBatchFields
BatchIndexDraws == {<<>>, <<0>>}
BatchUpdateDraws ==
  {[key |-> <<"a">>], [value |-> Str(<<"x">>)], handleTypeChange("object")}

InitBatch ==
  /\ \E n \in BatchIds :
       \E parents \in [1..n -> 0..(n - 1)], types \in [1..n -> EditTypeDraws] :
          /\ \A i \in 1..n : parents[i] < i
          /\ fields = EditTree(parents, types, NoId)
          /\ nextId = n + 1
  /\ generatedJSON = generateJSON(fields).json
  /\ errors = generateJSON(fields).errors
  /\ lastOp = "init"
  /\ returned = NotReturned
  /\ AtRest

\* A handler call between two renders: it queues one setFields call.
Dispatch(action) ==
  /\ lastOp \in {"init", "dispatch"}
  /\ Len(queue) < MaxPending
  /\ effects = <<>>
  /\ queue' = Append(queue, action)
  /\ lastOp' = "dispatch"
  /\ UNCHANGED <<fields, generatedJSON, errors, returned, localStorage, effects, savedAtMount>>

DispatchAddField(parentId, index) ==
  /\ Dispatch(SetFields("add", NoId, NoId, parentId, index, NoUpdates, nextId, <<>>))
  /\ nextId' = nextId + 1

DispatchRemoveField(id) ==
  /\ Dispatch(SetFields("remove", id, NoId, NoId, <<>>, NoUpdates, nextId,
                        <<removeFieldOp(fields, id, nextId)>>))
  /\ nextId' = IF Len(removeFromFields(fields, id)) = 0 THEN nextId + 1 ELSE nextId

DispatchUpdateField(id, updates) ==
  /\ Dispatch(SetFields("update", id, NoId, NoId, <<>>, updates, NoId,
                        <<updateInFields(fields, id, updates)>>))
  /\ UNCHANGED nextId

DispatchMoveField(dragId, hoverId, hoverParentId) ==
  /\ Dispatch(SetFields("move", dragId, hoverId, hoverParentId, <<>>, NoUpdates, NoId,
                        <<moveField(fields, dragId, hoverId, hoverParentId)>>))
  /\ UNCHANGED nextId

DispatchToggleCollapse(id) ==
  /\ Dispatch(SetFields("toggle", id, NoId, NoId, <<>>, NoUpdates, NoId,
                        <<toggleCollapse(fields, id)>>))
  /\ UNCHANGED nextId

NextBatch ==
  \/ \E parentId \in BatchParents, index \in BatchIndexDraws : DispatchAddField(parentId, index)
  \/ \E id \in BatchIds : DispatchRemoveField(id)
  \/ \E id \in BatchIds, updates \in BatchUpdateDraws : DispatchUpdateField(id, updates)
  \/ \E dragId \in BatchIds, hoverId \in BatchIds, hoverParentId \in BatchParents :
       DispatchMoveField(dragId, hoverId, hoverParentId)
  \/ \E id \in BatchIds : DispatchToggleCollapse(id)
  \/ Render
  \/ SaveEffect

SpecBatch == InitBatch /\ [][NextBatch]_vars

\* ---------------------------------------------------------------- properties
ChildIds(field) == [i \in 1..Len(field.children) |-> field.children[i].id]
IsContainer(field) == field.type \in {"object", "array"}
IsBlank(field) ==
  /\ field.key = <<>> /\ field.value = EmptyStr /\ field.type = "string"
  /\ field.children = <<>>
\* Every child's key is the decimal string of its zero-based position.
Indexed(field) ==
  \A i \in 1..Len(field.children) : field.children[i].key = IndexToString(i - 1)
Nested(fs) == \E i \in 1..Len(fs) : Len(fs[i].children) > 0

\* C1: after any sequence of addField, removeField and moveField operations no
\* field id occurs at two positions of the tree.
C1_UniqueIds == Len(IdList(fields)) = Cardinality(Ids(fields))

\* A move has acted on a full tree that has nested fields.
C1_Witness == lastOp = "move" /\ CountFields(fields) = MaxFields /\ Nested(fields)

\* C2: every field's parentId is absent or is the id of a field of the tree.
C2_ParentIdsResolve ==
  \A f \in FieldSet(fields) : f.parentId = NoId \/ f.parentId \in Ids(fields)

\* C3: the root list is never empty, and a removeField that removes the last
\* root field leaves exactly one blank string field.
C3_RootNeverEmpty ==
  [][/\ Len(fields') >= 1
     /\ \A id \in IdDraws :
          RemoveField(id) /\ removeFromFields(fields, id) = <<>>
            => Len(fields') = 1 /\ IsBlank(fields'[1])]_vars

\* C4: moveField returns the tree unchanged when dragId equals dropTargetId or
\* the drop target is a descendant of the dragged field, whatever newParentId is.
C4_MoveRejected ==
  [][\A dragId \in IdDraws, hoverId \in IdDraws, hoverParentId \in ParentDraws :
       /\ MoveField(dragId, hoverId, hoverParentId)
       /\ \/ dragId = hoverId
          \/ /\ findField(fields, dragId) # <<>>
             /\ isDescendant(findField(fields, dragId)[1], hoverId)
       => fields' = fields]_vars

\* C5: no field id appears in its own subtree, in particular after moveField
\* with any dragId, dropTargetId and newParentId.
C5_NoSelfAncestor == \A f \in FieldSet(fields) : ~isDescendant(f, f.id)

\* A move has left a three-level chain: a field under a field under a root field.
C5_Witness ==
  /\ lastOp = "move"
  /\ \E i \in 1..Len(fields) : Nested(fields[i].children)

\* C6: a field has children only if its type is object or array.
C6_ChildrenOnlyInContainers ==
  \A f \in FieldSet(fields) : Len(f.children) > 0 => IsContainer(f)

\* C7: after an addField, removeField or moveField that changes the children
\* list of an array field, every child of that field has its position as key.
C7_ArrayKeysArePositions ==
  [][lastOp' \in {"add", "remove", "move"} =>
       \A a \in FieldSet(fields') :
          /\ a.type = "array"
          /\ \/ findField(fields, a.id) = <<>>
             \/ ChildIds(findField(fields, a.id)[1]) # ChildIds(a)
          => Indexed(a)]_vars

\* The value the array case emits for a list of children.
ChildValues(children) ==
  JList([i \in 1..Len(children) |-> arrayChildValue(children[i]).value])

Remaining(field, id) == SelectSeq(field.children, LAMBDA c : c.id # id)

\* What claim C8 says of the removal of child `id` from the root array `a`;
\* atLeast is the least number of remaining children the synthesis clause covers.
ArrayRemoval(a, id, atLeast) ==
  LET after == findField(fields', a.id)[1]
      remaining == Remaining(a, id)
  IN /\ ChildIds(after) = [i \in 1..Len(remaining) |-> remaining[i].id]
     /\ Indexed(after)
     /\ Len(remaining) >= atLeast =>
          /\ a.key \in DOMAIN generatedJSON'
          /\ generatedJSON'[a.key] = ChildValues(remaining)

RemovesArrayChild(a, id) ==
  /\ RemoveField(id)
  /\ a.type = "array"
  /\ \E i \in 1..Len(a.children) : a.children[i].id = id

SiblingGroups(fs) == {fs} \cup {f.children : f \in FieldSet(fs)}
Flagged(id) == id \in DOMAIN errors /\ errors[id] = "Duplicate key"
SharesKey(group, i) == \E j \in 1..Len(group) : j # i /\ group[j].key = group[i].key

\* C9 as stated: synthesis records 'Duplicate key' for exactly the fields that
\* share an identical non-empty key with another field of their sibling group.
C9_AsStated ==
  lastOp = "generate" =>
    \A group \in SiblingGroups(fields) : \A i \in 1..Len(group) :
       Flagged(group[i].id) <=> (group[i].key # <<>> /\ SharesKey(group, i))

\* C9 amended: ... that share an identical key which is non-empty after
\* trimming whitespace with another field of their sibling group.
C9_DuplicatesFlagged ==
  lastOp = "generate" =>
    \A group \in SiblingGroups(fields) : \A i \in 1..Len(group) :
       Flagged(group[i].id) <=> (Trim(group[i].key) # <<>> /\ SharesKey(group, i))

\* Synthesis has run on root keys a, b, a with a nested group that repeats a key.
C9_Witness ==
  /\ lastOp = "generate"
  /\ Len(fields) = 3
  /\ fields[1].key = <<"a">> /\ fields[2].key = <<"b">> /\ fields[3].key = <<"a">>
  /\ Len(fields[1].children) = 2
  /\ fields[1].children[1].key = <<"b">> /\ fields[1].children[2].key = <<"b">>
  /\ Flagged(1) /\ Flagged(3) /\ ~Flagged(2)

\* No entry of the object built from a sibling list has an invalid key or a key
\* that two or more fields of the list share.
OmitsInvalidAndDuplicates(group, object) ==
  \A k \in DOMAIN object :
     /\ validateKeyValue(k).isValid
     /\ Cardinality({i \in 1..Len(group) : group[i].key = k}) = 1

\* C10: the synthesized object of every object-level sibling group has no entry
\* for an invalid key and no entry for a key shared by two or more siblings.
C10_InvalidAndDuplicateOmitted ==
  lastOp = "generate" =>
    /\ OmitsInvalidAndDuplicates(fields, generatedJSON)
    /\ \A f \in FieldSet(fields) :
          f.type = "object" /\ Len(f.children) > 0 =>
            OmitsInvalidAndDuplicates(f.children, buildObject(f.children).json)

\* ---------------------------------------------------------------- conversion properties
\* The object-level sibling groups whose synthesized object is part of the
\* output: the root list, and the children of every emitted root object field.
ObjectGroups ==
  {[group |-> fields, object |-> generatedJSON]} \cup
  {[group |-> f.children, object |-> generatedJSON[f.key].o] :
     f \in {fields[i] : i \in {i \in 1..Len(fields) :
              /\ fields[i].type = "object"
              /\ Len(fields[i].children) > 0
              /\ fields[i].key \in DOMAIN generatedJSON}}}

HasValidKey(field) == validateKeyValue(field.key).isValid
\* A non-empty string that does not parse as a number.
Unparsable(v) == v.t = "str" /\ v.s # <<>> /\ isNaN(NumberOf(v))
Recorded(id, msg) == id \in DOMAIN errors /\ errors[id] = msg

InvalidNumberReported(g, i) ==
  /\ g.group[i].key \notin DOMAIN g.object
  /\ Recorded(g.group[i].id, "Invalid number")

RECURSIVE IsJSONValue(_)
IsJSONValue(v) ==
  CASE v.t \in {"str", "bool", "null", "num"} -> TRUE
    [] v.t = "obj" -> \A k \in DOMAIN v.o : IsJSONValue(v.o[k])
    [] v.t = "list" -> \A i \in 1..Len(v.l) : IsJSONValue(v.l[i])
    [] OTHER -> FALSE

\* C12: the synthesized value holds only objects, lists, strings, booleans,
\* null and finite numbers; never a not-a-number or an infinite number.
C12_OnlyJSONValues == lastOp = "generate" => IsJSONValue(JObj(generatedJSON))

\* The emitted root array fields that have children.
EmittedArrays ==
  {fields[i] : i \in {i \in 1..Len(fields) :
     /\ fields[i].type = "array"
     /\ Len(fields[i].children) > 0
     /\ fields[i].key \in DOMAIN generatedJSON}}

\* C13: an array field with children is synthesized as a list with one element
\* per child in child order, each element the child's value converted by the
\* rules for object entries, at every depth.
C13_ArrayElementsConverted ==
  lastOp = "generate" =>
    \A a \in EmittedArrays :
       LET list == generatedJSON[a.key].l
       IN /\ Len(list) = Len(a.children)
          /\ \A i \in 1..Len(a.children) :
                convertValue(a.children[i]).emit =>
                  list[i] = convertValue(a.children[i]).value

\* What claim C14 says of the root field i, whose manual literal is present:
\* emitted as parsed if the literal parses to a value of kind `kind`, otherwise
\* not emitted and an error recorded.
LiteralRule(i, kind) ==
  LET parseResult == parseJSON(fields[i].value.s)
  IN IF ~parseResult.error /\ parseResult.data.t = kind
     THEN /\ fields[i].key \in DOMAIN generatedJSON
          /\ generatedJSON[fields[i].key] = parseResult.data
     ELSE /\ fields[i].key \notin DOMAIN generatedJSON
          /\ fields[i].id \in DOMAIN errors

HasLiteral(i, type) ==
  /\ fields[i].type = type
  /\ Len(fields[i].children) = 0
  /\ IsNonBlankString(fields[i].value)
  /\ HasValidKey(fields[i])
  /\ ~SharesKey(fields, i)

\* C14: a childless object field with a manual literal emits the literal only
\* if it parses to an object, and otherwise is not emitted and gets an error;
\* likewise an array field and literals that parse to an array.
C14_LiteralsMatchType ==
  lastOp = "generate" =>
    \A i \in 1..Len(fields) :
       /\ HasLiteral(i, "object") => LiteralRule(i, "obj")
       /\ HasLiteral(i, "array") => LiteralRule(i, "list")

IsLeaf(field) == field.type \in {"string", "number", "boolean", "null"}

\* The value claim C15 names for a leaf field.
LeafValue(field) ==
  CASE field.type = "number" ->
         IF field.value = EmptyStr THEN Num(0) ELSE NumberOf(field.value)
    [] field.type = "boolean" ->
         Bool(field.value = Str(<<"t", "r", "u", "e">>) \/ field.value = Bool(TRUE))
    [] field.type = "null" -> Null
    [] OTHER -> StringOf(field.value)

\* C15: a leaf field with a valid key unique among its siblings is emitted
\* under that key as 0 or the parsed number, as true exactly for "true" or
\* true, as null, or as its value converted to a string; a field whose trimmed
\* key is empty is left out and gets no error.
C15_LeafConversion ==
  lastOp = "generate" =>
    \A g \in ObjectGroups : \A i \in 1..Len(g.group) :
       LET field == g.group[i]
       IN /\ /\ IsLeaf(field)
             /\ HasValidKey(field)
             /\ ~SharesKey(g.group, i)
             /\ ~(field.type = "number" /\ Unparsable(field.value))
             => /\ field.key \in DOMAIN g.object
                /\ g.object[field.key] = LeafValue(field)
          /\ Trim(field.key) = <<>> =>
                /\ field.key \notin DOMAIN g.object
                /\ field.id \notin DOMAIN errors

\* Synthesis has run on a boolean field "yes" under key a, emitted as false,
\* next to a field whose key is a single space.
C15_Witness ==
  /\ lastOp = "generate"
  /\ Len(fields) = 2
  /\ fields[1].key = <<"a">> /\ fields[1].type = "boolean"
  /\ fields[1].value = Str(<<"y", "e", "s">>)
  /\ fields[2].key = <<" ">>
  /\ generatedJSON = (<<"a">> :> Bool(FALSE))

\* ---------------------------------------------------------------- validationUtils properties
\* The outcome claim C16 names for a key: the error message, or "" for valid.
KeyOutcome(key) ==
  IF \A i \in 1..Len(key) : key[i] \in Whitespace THEN "Key cannot be empty"
  ELSE IF \E i \in 1..Len(key) : key[i] = " " THEN "Key cannot contain spaces"
  ELSE IF \/ key[1] \notin Letters \cup {"_", "$"}
          \/ \E i \in 2..Len(key) : key[i] \notin Letters \cup Digits \cup {"_", "$"}
       THEN "Key must be a valid identifier"
  ELSE ""

\* C16: validateKeyValue reports 'Key cannot be empty' for a key whose trimmed
\* length is zero, else 'Key cannot contain spaces' for a key with a space,
\* else 'Key must be a valid identifier' for a key outside the grammar, and
\* otherwise reports the key valid with no error.
C16_KeyClassification ==
  lastOp = "validateKeyValue" =>
    /\ returned.error = KeyOutcome(fields[1].key)
    /\ returned.isValid <=> KeyOutcome(fields[1].key) = ""

\* validateKeyValue has classified a three-character key that has a space and
\* is outside the grammar as well.
C16_Witness ==
  /\ lastOp = "validateKeyValue"
  /\ fields[1].key = <<"1", " ", "-">>
  /\ returned = [isValid |-> FALSE, error |-> "Key cannot contain spaces"]

\* C17: hasDuplicateKeys returns true exactly when two or more fields of the
\* list share an identical non-empty key.
C17_DuplicateNonEmptyKeys ==
  lastOp = "hasDuplicateKeys" =>
    (returned <=> \E i \in 1..Len(fields) : fields[i].key # <<>> /\ SharesKey(fields, i))

\* C18: the result of sanitizeKey is always a valid key, and a valid key is
\* returned unchanged.
C18_SanitizedKeyIsValid ==
  lastOp = "sanitizeKey" =>
    /\ validateKeyValue(returned).isValid
    /\ validateKeyValue(fields[1].key).isValid => returned = fields[1].key

\* ---------------------------------------------------------------- tree operation properties
\* The sibling list addField is pointed at: the root list or a field's children.
SiblingsOf(fs, parentId) ==
  IF parentId = NoId THEN fs ELSE findField(fs, parentId)[1].children

\* The tree without the field `id`, every other field left where it was.
RECURSIVE Without(_, _)
Without(fs, id) ==
  LET kept == SelectSeq(fs, LAMBDA f : f.id # id)
  IN [i \in 1..Len(kept) |-> [kept[i] EXCEPT !.children = Without(kept[i].children, id)]]

AddsOneField(parentId, index) ==
  LET before == SiblingsOf(fields, parentId)
      after == SiblingsOf(fields', parentId)
      position == IF index = <<>> THEN Len(before) + 1 ELSE index[1] + 1
  IN /\ nextId \notin Ids(fields)
     /\ Len(after) = Len(before) + 1
     /\ after[position] = NewField(nextId, parentId)
     /\ Without(fields', nextId) = fields

\* C19: addField with no parentId or one that resolves inserts exactly one new
\* blank string field with a fresh id into that sibling list, at the end when
\* no index is given and at position index when 0 <= index <= length; every
\* other field stays in its list in the same order.
C19_AddInsertsOneField ==
  [][\A parentId \in ParentDraws, index \in IndexDraws :
       /\ AddField(parentId, index)
       /\ parentId = NoId \/ parentId \in Ids(fields)
       /\ index = <<>> \/ index[1] <= Len(SiblingsOf(fields, parentId))
       => AddsOneField(parentId, index)]_vars

\* An add has put the newest field in front of an older sibling under a parent.
C19_Witness ==
  /\ lastOp = "add"
  /\ \E f \in FieldSet(fields) :
        /\ Len(f.children) = 2
        /\ f.children[1].id = nextId - 1
        /\ f.children[1] = NewField(nextId - 1, f.id)

\* The ids of the subtree of field `id`; none when the tree has no such field.
SubtreeIds(fs, id) == IF findField(fs, id) = <<>> THEN {} ELSE Ids(findField(fs, id))

\* The ids of `after` are those of `before` outside `removed`, in the same order.
KeepsOrder(before, after, removed) ==
  [i \in 1..Len(after) |-> after[i].id] =
    SelectSeq([i \in 1..Len(before) |-> before[i].id], LAMBDA x : x \notin removed)

\* Exactly the subtree of `id` is gone and every other field is under the same
\* parent in the same relative order.
RemovesSubtree(id) ==
  LET removed == SubtreeIds(fields, id)
  IN /\ Ids(fields') = Ids(fields) \ removed
     /\ KeepsOrder(fields, fields', removed)
     /\ \A g \in FieldSet(fields') :
           /\ findField(fields, g.id) # <<>>
           /\ KeepsOrder(findField(fields, g.id)[1].children, g.children, removed)

\* C20 as stated: removeField removes exactly the field with the id and its
\* descendants; the ids of the result are the original ids minus the removed
\* subtree, and the remaining fields keep parent and relative order.
C20_AsStated ==
  [][\A id \in IdDraws : RemoveField(id) => RemovesSubtree(id)]_vars

\* C20 amended: the same, except that a removal which leaves the root list
\* empty results in one new blank string field.
C20_RemovesSubtree ==
  [][\A id \in IdDraws :
       RemoveField(id) =>
         IF Ids(fields) \subseteq SubtreeIds(fields, id)
         THEN fields' = <<NewField(nextId, NoId)>>
         ELSE RemovesSubtree(id)]_vars

\* A removal has left a tree with nested fields after three fields were made.
C20_Witness == lastOp = "remove" /\ Nested(fields) /\ nextId = MaxId + 1

\* C21: a structural operation given an id that does not resolve returns its
\* input tree: addField with an unresolved parentId, removeField and
\* toggleCollapse with an id not in the tree, moveField whose dragId or
\* dropTargetId is not in the tree.
C21_UnresolvedIdsAreNoOps ==
  [][/\ \A parentId \in IdDraws \ Ids(fields), index \in IndexDraws :
          AddField(parentId, index) => fields' = fields
     /\ \A id \in IdDraws \ Ids(fields) :
          /\ RemoveField(id) => fields' = fields
          /\ ToggleCollapse(id) => fields' = fields
     /\ \A dragId \in IdDraws, hoverId \in IdDraws, hoverParentId \in ParentDraws :
          /\ MoveField(dragId, hoverId, hoverParentId)
          /\ dragId \notin Ids(fields) \/ hoverId \notin Ids(fields)
          => fields' = fields]_vars

\* A move that names two fields of the tree and that canDrop admits.
AcceptedMove(dragId, hoverId, hoverParentId) ==
  /\ MoveField(dragId, hoverId, hoverParentId)
  /\ dragId \in Ids(fields) /\ hoverId \in Ids(fields)
  /\ canDrop(dragId, hoverId, fields)

\* The list of the tree whose owner has the id parentId; none if no field has it.
ListOf(fs, parentId) ==
  IF parentId = NoId THEN <<fs>>
  ELSE IF findField(fs, parentId) = <<>> THEN <<>>
  ELSE <<findField(fs, parentId)[1].children>>

Holds(list, id) == \E i \in 1..Len(list) : list[i].id = id

\* C25: after an accepted moveField the moved field's parentId is newParentId,
\* or absent for a move to the root, and names the field whose children list
\* holds the moved field.
C25_MovedFieldParentId ==
  [][\A dragId \in IdDraws, hoverId \in IdDraws, hoverParentId \in ParentDraws :
       AcceptedMove(dragId, hoverId, hoverParentId) /\ dragId \in Ids(fields')
       => /\ findField(fields', dragId)[1].parentId = hoverParentId
          /\ ListOf(fields', hoverParentId) # <<>>
          /\ Holds(ListOf(fields', hoverParentId)[1], dragId)]_vars

\* The dragged field is in `list` right before the drop target if the list
\* holds the target, and is its last entry otherwise.
PlacedAt(list, dragId, hoverId) ==
  /\ Holds(list, dragId)
  /\ IF Holds(list, hoverId)
     THEN \E i \in 1..(Len(list) - 1) : list[i].id = dragId /\ list[i + 1].id = hoverId
     ELSE list[Len(list)].id = dragId

\* C26: after an accepted moveField the dragged field is in the children list
\* of newParentId, or in the root list when none is given, immediately before
\* the drop target if that list holds it and last otherwise; every other entry
\* keeps its list and its relative order.
C26_MovedFieldPosition ==
  [][\A dragId \in IdDraws, hoverId \in IdDraws, hoverParentId \in ParentDraws :
       AcceptedMove(dragId, hoverId, hoverParentId)
       => /\ ListOf(fields', hoverParentId) # <<>>
          /\ PlacedAt(ListOf(fields', hoverParentId)[1], dragId, hoverId)
          /\ Without(fields', dragId) = Without(fields, dragId)]_vars

\* C29: moveField neither loses nor duplicates a field: when dragId and
\* dropTargetId resolve, the ids of the result are the ids of the input,
\* whatever newParentId is.
C29_MoveKeepsAllFields ==
  [][\A dragId \in IdDraws, hoverId \in IdDraws, hoverParentId \in ParentDraws :
       /\ MoveField(dragId, hoverId, hoverParentId)
       /\ dragId \in Ids(fields) /\ hoverId \in Ids(fields)
       => /\ Ids(fields') = Ids(fields)
          /\ Len(IdList(fields')) = Len(IdList(fields))]_vars

\* The default value the statement gives for each type.
DefaultValue(type) ==
  CASE type = "string" -> EmptyStr
    [] type = "number" -> Num(0)
    [] type = "boolean" -> Str(<<"f", "a", "l", "s", "e">>)
    [] type = "null" -> EmptyStr
    [] type = "object" -> Str(<<"{", "}">>)
    [] type = "array" -> Str(<<"[", "]">>)

\* The tree with the field `id` taken out of the comparison: every other field
\* with all its attributes, in place.
RECURSIVE Masked(_, _)
Masked(fs, id) ==
  [i \in 1..Len(fs) |->
     IF fs[i].id = id THEN [id |-> id, children |-> Masked(fs[i].children, id)]
     ELSE [fs[i] EXCEPT !.children = Masked(@, id)]]

\* C22: when updateField changes the type of a field, the field's value
\* afterwards is the default of the new type, a field retyped to object or array
\* has a children list, and every other field is unchanged.
C22_TypeChangeResetsValue ==
  [][\A id \in EditIds, updates \in EditDraws :
       /\ UpdateField(id, updates)
       /\ id \in Ids(fields)
       /\ updates.type # findField(fields, id)[1].type
       => /\ findField(fields', id)[1].type = updates.type
          /\ findField(fields', id)[1].value = DefaultValue(updates.type)
          /\ findField(fields', id)[1].children \in Seq(FieldSet(fields'))
          /\ Masked(fields', id) = Masked(fields, id)]_vars

\* C23: toggleCollapse flips isCollapsed of the matching field when it is an
\* object or array and changes nothing else; for a field of a leaf type the tree
\* stays as it was.
C23_ToggleOnlyContainers ==
  [][\A id \in EditIds :
       ToggleCollapse(id) /\ id \in Ids(fields)
       => IF IsContainer(findField(fields, id)[1])
          THEN /\ findField(fields', id)[1].isCollapsed = ~findField(fields, id)[1].isCollapsed
               /\ fields' = updateInFields(fields, id,
                              [isCollapsed |-> findField(fields', id)[1].isCollapsed])
          ELSE fields' = fields]_vars

\* The tree with every collapse flag cleared.
RECURSIVE Uncollapsed(_)
Uncollapsed(fs) ==
  [i \in 1..Len(fs) |->
     [fs[i] EXCEPT !.isCollapsed = FALSE, !.children = Uncollapsed(@)]]

\* C24: collapse state does not influence synthesis: a tree synthesizes to the
\* JSON value and the error map of the same tree with every flag cleared, and
\* toggleCollapse, collapseAll and expandAll leave the generated output as it was.
C24_CollapseDoesNotAffectSynthesis ==
  [][/\ generateJSON(fields') = generateJSON(Uncollapsed(fields'))
     /\ lastOp' \in {"toggle", "collapseAll", "expandAll"}
        => generatedJSON' = generatedJSON /\ errors' = errors]_vars

C24_Witness ==
  /\ lastOp \in {"toggle", "collapseAll"}
  /\ \E f \in FieldSet(fields) : f.isCollapsed /\ f.type = "object" /\ Len(f.children) > 0
  /\ \E k \in DOMAIN generatedJSON :
       generatedJSON[k].t = "obj" /\ generatedJSON[k].o # NoEntries

\* The ancestors of the field `id` by position in the tree, nearest first.
RECURSIVE AncestorsOf(_, _)
AncestorsOf(fs, id) ==
  IF findParentField(id, fs) = <<>> THEN <<>>
  ELSE <<findParentField(id, fs)[1]>> \o AncestorsOf(fs, findParentField(id, fs)[1].id)

Shown(fs, field) ==
  \A i \in 1..Len(AncestorsOf(fs, field.id)) : ~AncestorsOf(fs, field.id)[i].isCollapsed

\* The pre-order traversal restricted to the fields with no collapsed ancestor,
\* each with its number of ancestors as depth.
VisiblePreOrder(fs) ==
  LET shown == SelectSeq(AllFields(fs), LAMBDA f : Shown(fs, f))
  IN [i \in 1..Len(shown) |->
        [shown[i] EXCEPT !.depth = Len(AncestorsOf(fs, shown[i].id))]]

\* C28: the flattened list is the pre-order traversal of the tree restricted
\* to the fields none of whose ancestors is collapsed, each with its number of
\* ancestors as depth whatever depth is cached on it; a collapsed field is
\* listed, its descendants are not.
C28_FlattenedIsVisiblePreOrder ==
  /\ flattenedFields(fields) = VisiblePreOrder(fields)
  /\ \A f \in FieldSet(fields) :
       f.isCollapsed => \A d \in SubtreeIds(fields, f.id) \ {f.id} :
                           ~Holds(flattenedFields(fields), d)

C28_Witness ==
  /\ lastOp = "toggle"
  /\ \E i \in 1..Len(flattenedFields(fields)) :
       /\ flattenedFields(fields)[i].depth = 1
       /\ flattenedFields(fields)[i].isCollapsed
       /\ Len(flattenedFields(fields)[i].children) > 0
       /\ findField(fields, flattenedFields(fields)[i].id)[1].depth = 0
  /\ Len(flattenedFields(fields)) < CountFields(fields)

\* Nothing is queued and no effect is left to run.
Settled == queue = <<>> /\ effects = <<>>

\* C27: when the generator mounts on a non-empty stored tree, once the mount
\* effects and the state updates they queue have settled, the tree is the
\* stored tree, storage still holds it, and synthesis yields its JSON value;
\* also when the mount effects run twice.
C27_ReloadRestoresDocument ==
  Settled /\ savedAtMount # NoItem
  => /\ fields = parseFields(savedAtMount[1])
     /\ localStorage = savedAtMount
     /\ generatedJSON = generateJSON(parseFields(savedAtMount[1])).json

\* The operation of a queued call, applied to a tree.
Applied(action, tree) ==
  CASE action.op = "add" -> addField(tree, action.newId, action.parentId, action.index)
    [] action.op = "remove" -> removeFieldOp(tree, action.id, action.newId)
    [] action.op = "update" -> updateInFields(tree, action.id, action.updates)
    [] action.op = "move" -> moveField(tree, action.id, action.hoverId, action.parentId)
    [] action.op = "toggle" -> toggleCollapse(tree, action.id)
    [] OTHER -> action.state[1]

\* The operations of the queue applied one after the other, each to the
\* result of the one before.
RECURSIVE InOrder(_, _)
InOrder(pending, tree) ==
  IF pending = <<>> THEN tree
  ELSE InOrder(Tail(pending), Applied(Head(pending), tree))

\* C30: no update is lost between two renders: the tree rendered after the
\* queued operations is the result of applying them in dispatch order, each to
\* the result of the one before.
C30_NoLostUpdate ==
  [][queue # <<>> /\ queue' = <<>> => fields' = InOrder(queue, fields)]_vars

====
